---- MODULE Spec2Model ----
(***************************************************************************)
(* WaterNet, model.py: training and evaluation of the water predictor.     *)
(*                                                                         *)
(* The state machine runs train_model and then evaluate_model on one set   *)
(* of feature and label tiles.  Arrays are numpy arrays: a shape, the      *)
(* elements in C (row-major) order and the dtype.  Elements of dtype uint8 *)
(* are integers; floats are kept in fixed point, see Unit.                 *)
(***************************************************************************)
EXTENDS Integers, Sequences, FiniteSets, TLC

\* ------------------------------------------------------------------ bounds

\* Side of a tile (the tile_size argument of every function).
tile_size == 2

\* Channels of a feature tile (num_channels of init_model is 3).
NumChannels == 2

\* Longest list of label tiles handed to the program.
MaxTiles == 3

\* ------------------------------------------------------- numeric encoding

\* A float x is stored as the integer x * Unit: with Unit = 2 * 255 both the
\* cutoff 0.5 and every k / 255 of normalize_input are exact.
Unit == 510

\* The cutoff 0.5 of the thresholding.
Half == Unit \div 2

\* The value 1 written by the first assignment of the thresholding.
One == Unit

\* ------------------------------------------------------------------ arrays

RECURSIVE Size(_)
\* Number of elements of an array of the given shape.
Size(shape) ==
    IF shape = <<>> THEN 1 ELSE Head(shape) * Size(Tail(shape))

RECURSIVE Offset(_, _)
\* C-order offset of the index idx in an array of the given shape.
Offset(shape, idx) ==
    IF shape = <<>> THEN 0
    ELSE Head(idx) * Size(Tail(shape)) + Offset(Tail(shape), Tail(idx))

\* a[idx], indices from 0 as in numpy.
At(a, idx) == a.data[1 + Offset(a.shape, idx)]

RECURSIVE Concat(_)
\* The element data of a list of arrays, one after the other.
Concat(list) ==
    IF list = <<>> THEN <<>> ELSE Head(list).data \o Concat(Tail(list))

\* np.array(list) for a list of equally shaped arrays: a new leading axis.
\* np.array([]) has shape (0,).
np_array(list) ==
    IF list = <<>> THEN [shape |-> <<0>>, data |-> <<>>, dtype |-> "float64"]
    ELSE [shape |-> <<Len(list)>> \o list[1].shape, data |-> Concat(list),
          dtype |-> list[1].dtype]

\* np.reshape succeeds exactly when the sizes agree.
CanReshape(a, shape) == Size(shape) = Len(a.data)

\* np.reshape(a, shape): the same elements in the same C order.
np_reshape(a, shape) == [a EXCEPT !.shape = shape]

\* a[i] of an array with a leading axis: the i-th block (i from 0).
Block(a, i) ==
    LET n == Size(Tail(a.shape))
    IN  [shape |-> Tail(a.shape),
         data  |-> SubSeq(a.data, i * n + 1, (i + 1) * n),
         dtype |-> a.dtype]

\* ------------------------------------------------------------- environment

\* Source paths of the satellite images the tiles were cut from.
Paths == {"a/x.tif", "a/y.tif", "b/x.tif"}

\* Python's order of the path strings (sorted compares them as str).
PathOrder(p) ==
    CASE p = "a/x.tif" -> 1
      [] p = "a/y.tif" -> 2
      [] p = "b/x.tif" -> 3

\* preprocessing.get_file_name: the file name without directory and extension.
get_file_name(p) ==
    CASE p = "a/x.tif" -> "x"
      [] p = "a/y.tif" -> "y"
      [] p = "b/x.tif" -> "x"

\* Shape (height, width) of the raster of a satellite image name.
RasterShape(name) ==
    IF name = "x" THEN <<tile_size, 2 * tile_size>>
    ELSE <<2 * tile_size, tile_size>>

\* The positions (row, col) of the tiles create_tiles cuts from a raster.
Positions(p) ==
    LET s == RasterShape(get_file_name(p))
    IN  {<<r * tile_size, c * tile_size>> :
            r \in 0 .. (s[1] \div tile_size) - 1,
            c \in 0 .. (s[2] \div tile_size) - 1}

\* Water mask of the image p at pixel (r, c): 0 or 1.
Mask(p, r, c) == IF (2 * r + c + PathOrder(p)) % 3 = 0 THEN 1 ELSE 0

\* Intensity in 0 .. 255 of the image p at pixel (r, c), channel ch.
Intensity(p, r, c, ch) == (37 * r + 11 * c + 5 * ch + 50 * PathOrder(p)) % 256

\* The label tile cut from image p at pos: (mask of shape (T, T), pos, p).
LabelTile(p, pos) ==
    [tile |-> [shape |-> <<tile_size, tile_size>>,
               data  |-> [k \in 1 .. tile_size * tile_size |->
                            Mask(p, pos[1] + ((k - 1) \div tile_size),
                                    pos[2] + ((k - 1) % tile_size))],
               dtype |-> "uint8"],
     position |-> pos,
     path |-> p]

\* The feature tile cut from image p at pos: shape (T, T, C).
FeatureTile(p, pos) ==
    [tile |-> [shape |-> <<tile_size, tile_size, NumChannels>>,
               data  |-> [k \in 1 .. tile_size * tile_size * NumChannels |->
                            Intensity(p,
                                pos[1] + (((k - 1) \div NumChannels) \div tile_size),
                                pos[2] + (((k - 1) \div NumChannels) % tile_size),
                                (k - 1) % NumChannels)],
               dtype |-> "uint8"],
     position |-> pos,
     path |-> p]

\* The (path, position) pairs a tile can carry.
Cuts == UNION {{<<p, pos>> : pos \in Positions(p)} : p \in Paths}

\* Lists of at most MaxTiles tiles, positions unique per path, in any order.
CutLists ==
    {s \in UNION {[1 .. n -> Cuts] : n \in 0 .. MaxTiles} :
        \A i, j \in DOMAIN s : s[i] = s[j] => i = j}

\* The feature lists a caller may pair with the label tiles of the cuts s:
\* the parallel list, one tile short, or one tile long.
FeatureLists(s) ==
    LET paired == [i \in DOMAIN s |-> FeatureTile(s[i][1], s[i][2])]
    IN  {paired}
        \cup (IF s = <<>> THEN {}
              ELSE {SubSeq(paired, 1, Len(s) - 1), Append(paired, paired[1])})

\* The companion rasters WGS84_DIR may hold.
Companions == {{"x", "y"}, {"x"}, {"y"}}

\* What the model answers for pixel k (from 1) of sample i (from 0).
Score(kind, lbls, i, k) ==
    LET truth == IF i < Len(lbls) THEN lbls[i + 1].tile.data[k] ELSE 0
    IN  CASE kind = "perfect"    -> truth * Unit
          [] kind = "inverted"   -> (1 - truth) * Unit
          [] kind = "borderline" ->
                <<Half, Half - 1, Half + 1, Unit, 0, 100>>
                    [((i * tile_size * tile_size + k - 1) % 6) + 1]

PredictKinds == {"perfect", "inverted", "borderline"}

\* The container model.predict returns: a list of lists or an ndarray.
Containers == {"list", "ndarray"}

\* ----------------------------------------------------- model.py, functions

\* An element of the array a as a float (in fixed point).
ToFloat(a, v) == IF a.dtype = "uint8" THEN v * Unit ELSE v

\* normalize_input: astype(float32), then times 1.0 / 255.0.
normalize_input(a) ==
    [shape |-> a.shape,
     data  |-> [k \in DOMAIN a.data |-> ToFloat(a, a.data[k]) \div 255],
     dtype |-> "float32"]

\* The list comprehension [tile for tile, position, path in tiles].
TilesOf(tiles) == [i \in DOMAIN tiles |-> tiles[i].tile]

\* get_matrix_form raises only where its np.reshape does.
get_matrix_form_raises(feats, lbls, T) ==
    ~CanReshape(np_array(TilesOf(lbls)), <<Len(lbls), T * T>>)

\* get_matrix_form with the two axes of the label array exchanged.
get_matrix_form_transposed(feats, lbls, T) ==
    [X |-> np_array(TilesOf(feats)),
     y |-> np_reshape(np_array(TilesOf(lbls)), <<T * T, Len(lbls)>>)]

\* get_matrix_form: (np.array(features), np.array(labels)), the labels
\* reshaped to (len(labels), T * T).
get_matrix_form(feats, lbls, T) ==
    [X |-> np_array(TilesOf(feats)),
     y |-> np_reshape(np_array(TilesOf(lbls)), <<Len(lbls), T * T>>)]

\* model.fit of the external framework: rejects X and y of different length.
ModelFit(Xn, y) == IF Xn.shape[1] = y.shape[1] THEN "returned" ELSE "error"

\* model.predict of the external framework: one row of T * T scores for each
\* entry of X, as a list of lists or as an ndarray.
ModelPredict(Xin, lbls, kind, container) ==
    LET n == Xin.shape[1]
        w == tile_size * tile_size
    IN  [kind |-> container,
         arr  |-> IF n = 0 /\ container = "list"
                  THEN [shape |-> <<0>>, data |-> <<>>, dtype |-> "float64"]
                  ELSE [shape |-> <<n, w>>,
                        data  |-> [k \in 1 .. n * w |->
                                     Score(kind, lbls, (k - 1) \div w,
                                           ((k - 1) % w) + 1)],
                        dtype |-> "float32"]]

\* np.asarray in the place of np.array: an ndarray is passed through, uncopied.
np_asarray_of(h, ref) ==
    IF h[ref].kind = "ndarray" THEN [heap |-> h, ref |-> ref]
    ELSE [heap |-> Append(h, [kind |-> "ndarray", arr |-> h[ref].arr]),
          ref  |-> Len(h) + 1]

\* predicted_bitmap = np.array(y_predicted): a new ndarray holding a copy,
\* also when y_predicted is an ndarray already (copy=True is the default).
np_array_of(h, ref) ==
    [heap |-> Append(h, [kind |-> "ndarray", arr |-> h[ref].arr]),
     ref  |-> Len(h) + 1]

\* The first assignment with a strict comparison, 0.5 < predicted_bitmap.
threshold_first_strict(data) ==
    [k \in DOMAIN data |-> IF Half < data[k] THEN One ELSE data[k]]

\* predicted_bitmap[0.5 <= predicted_bitmap] = 1
threshold_first(data) ==
    [k \in DOMAIN data |-> IF Half <= data[k] THEN One ELSE data[k]]

\* predicted_bitmap[predicted_bitmap < 0.5] = 0
threshold_second(data) ==
    [k \in DOMAIN data |-> IF data[k] < Half THEN 0 ELSE data[k]]

\* The pairing with the predictions taken from the far end.
predictions_transformed_reversed(preds, lbls) ==
    [i \in DOMAIN lbls |->
        <<Block(preds, Len(lbls) - i), lbls[i].position, lbls[i].path>>]

\* The loop of visualise_predictions that pairs predictions[i, :, :, :] with
\* the position and the path of labels[i].
predictions_transformed(preds, lbls) ==
    [i \in DOMAIN lbls |->
        <<Block(preds, i - 1), lbls[i].position, lbls[i].path>>]

\* get_path = lambda x: x[2]
get_path(x) == x[3]

\* One step of a stable sort: x goes behind every element whose key is not
\* greater than its own.
SortedInsert(sorted, x) ==
    LET before == {i \in DOMAIN sorted :
                      PathOrder(get_path(sorted[i])) <= PathOrder(get_path(x))}
        n == Cardinality(before)
    IN  SubSeq(sorted, 1, n) \o <<x>> \o SubSeq(sorted, n + 1, Len(sorted))

\* The grouping without the sort before it.
unsorted(list) == list

RECURSIVE sorted_by_path(_)
\* sorted(predictions_transformed, key=get_path): stable, ascending.
sorted_by_path(list) ==
    IF list = <<>> THEN <<>>
    ELSE SortedInsert(sorted_by_path(SubSeq(list, 1, Len(list) - 1)),
                      list[Len(list)])

\* Length of the run of elements at the head of list whose key is key.
RECURSIVE RunLength(_, _)
RunLength(list, key) ==
    IF list = <<>> \/ get_path(Head(list)) # key THEN 0
    ELSE 1 + RunLength(Tail(list), key)

RECURSIVE groupby(_)
\* itertools.groupby(list, get_path): one group for each run of consecutive
\* elements with the same key.
groupby(list) ==
    IF list = <<>> THEN <<>>
    ELSE LET key == get_path(Head(list))
             n   == RunLength(list, key)
         IN  <<[path |-> key, tiles |-> SubSeq(list, 1, n)]>>
                 \o groupby(SubSeq(list, n + 1, Len(list)))

\* An element of the array a as written into the image of unsigned bytes.
ToPixel(a, v) == IF a.dtype = "uint8" THEN v ELSE (v \div Unit) % 256

\* image[row:row + T, col:col + T, :] = tile
PlaceTile(image, t, T) ==
    LET W   == image.shape[2]
        row == t[2][1]
        col == t[2][2]
    IN  [image EXCEPT !.data =
            [k \in DOMAIN image.data |->
                LET r == (k - 1) \div W
                    c == (k - 1) % W
                IN  IF r >= row /\ r < row + T /\ c >= col /\ c < col + T
                    THEN ToPixel(t[1], At(t[1], <<r - row, c - col, 0>>))
                    ELSE image.data[k]]]

RECURSIVE PlaceAll(_, _, _)
PlaceAll(image, tiles, T) ==
    IF tiles = <<>> THEN image
    ELSE PlaceAll(PlaceTile(image, Head(tiles), T), Tail(tiles), T)

\* process_geotiff.image_from_tiles: an image of zeros of the given shape with
\* every tile's block placed at the tile's position.
image_from_tiles(tiles, T, shape) ==
    PlaceAll([shape |-> shape, data |-> [k \in 1 .. Size(shape) |-> 0],
              dtype |-> "uint8"],
             tiles, T)

\* bitmap_shape = (raster_dataset.shape[0], raster_dataset.shape[1], 1)
bitmap_shape(name) == RasterShape(name) \o <<1>>

\* The reshape with width and height exchanged.
squeeze_bitmap_swapped(bitmap) ==
    np_reshape(bitmap, <<bitmap.shape[2], bitmap.shape[1]>>)

\* bitmap = np.reshape(bitmap, (bitmap.shape[0], bitmap.shape[1]))
squeeze_bitmap(bitmap) ==
    np_reshape(bitmap, <<bitmap.shape[1], bitmap.shape[2]>>)

\* The output raster's file: out_path + satellite_img_name + ".tif".
RasterFile(p) == <<get_file_name(p), ".tif">>

PickleFile == <<"precision_recall", ".pickle">>
PngFile == <<"precision_recall", ".png">>

\* -------------------------------------------------------------- the state

VARIABLES
    features,        \* the feature tiles handed to train_model and evaluate_model
    labels,          \* the label tiles handed to them
    wgs84_files,     \* the names whose companion raster WGS84_DIR holds
    pc,              \* where the run is
    err,             \* the exception that ended evaluate_model, "" for none
    matrix_results,  \* what each call of get_matrix_form ended in
    fit_calls,       \* the arguments of each call of model.fit
    train_result,    \* how train_model ended
    X,               \* evaluate_model's X, in a one-element list once set
    y_true,          \* evaluate_model's y_true, in a one-element list once set
    heap,            \* the objects model.predict and np.array created
    y_predicted,     \* evaluate_model's y_predicted: a reference into heap
    predicted_bitmap,\* evaluate_model's predicted_bitmap: a reference into heap
    predict_calls,   \* the argument and the result of each call of model.predict
    groups,          \* the groups the loop of visualise_predictions has yet to take
    image_calls,     \* the path and the tiles of each call of image_from_tiles
    overlay_calls,   \* the bitmap and the file of each call of overlay_bitmap
    out_files,       \* the files under out_path, by name
    pr_calls         \* the arguments of each call of metrics.precision_recall_curve

vars ==
    <<features, labels, wgs84_files, pc, err, matrix_results, fit_calls,
      train_result, X, y_true, heap, y_predicted, predicted_bitmap,
      predict_calls, groups, image_calls, overlay_calls, out_files, pr_calls>>

\* The files of out_path as a function from the names written so far.
NoFiles == [f \in {} |-> 0]

Init ==
    /\ \E s \in CutLists :
        /\ labels = [i \in DOMAIN s |-> LabelTile(s[i][1], s[i][2])]
        /\ features \in FeatureLists(s)
    /\ wgs84_files \in Companions
    /\ pc = "train"
    /\ err = ""
    /\ matrix_results = <<>>
    /\ fit_calls = <<>>
    /\ train_result = "none"
    /\ X = <<>>
    /\ y_true = <<>>
    /\ heap = <<>>
    /\ y_predicted = 0
    /\ predicted_bitmap = 0
    /\ predict_calls = <<>>
    /\ groups = <<>>
    /\ image_calls = <<>>
    /\ overlay_calls = <<>>
    /\ out_files = NoFiles
    /\ pr_calls = <<>>

\* ------------------------------------------------------------- train_model

\* train_model(model, features, labels, tile_size, model_id), whole.
TrainModel ==
    /\ pc = "train"
    /\ pc' = "evaluate"
    /\ IF get_matrix_form_raises(features, labels, tile_size)
       THEN /\ matrix_results' = Append(matrix_results, "error")
            /\ train_result' = "error"
            /\ UNCHANGED fit_calls
       ELSE LET m  == get_matrix_form(features, labels, tile_size)
                Xn == normalize_input(m.X)
            IN  /\ matrix_results' = Append(matrix_results, "returned")
                /\ fit_calls' = Append(fit_calls, [X |-> Xn, y |-> m.y])
                /\ train_result' = ModelFit(Xn, m.y)
    /\ UNCHANGED <<features, labels, wgs84_files, err, X, y_true, heap,
                   y_predicted, predicted_bitmap, predict_calls, groups,
                   image_calls, overlay_calls, out_files, pr_calls>>

\* ---------------------------------------------------------- evaluate_model

\* X, y_true = get_matrix_form(features, labels, tile_size)
EvaluateMatrixForm ==
    /\ pc = "evaluate"
    /\ IF get_matrix_form_raises(features, labels, tile_size)
       THEN /\ matrix_results' = Append(matrix_results, "error")
            /\ pc' = "error"
            /\ err' = "ValueError"
            /\ UNCHANGED <<X, y_true>>
       ELSE LET m == get_matrix_form(features, labels, tile_size)
            IN  /\ matrix_results' = Append(matrix_results, "returned")
                /\ X' = <<m.X>>
                /\ y_true' = <<m.y>>
                /\ pc' = "predict"
                /\ UNCHANGED err
    /\ UNCHANGED <<features, labels, wgs84_files, fit_calls, train_result,
                   heap, y_predicted, predicted_bitmap, predict_calls, groups,
                   image_calls, overlay_calls, out_files, pr_calls>>

\* y_predicted = model.predict(X)
EvaluatePredict ==
    /\ pc = "predict"
    /\ \E kind \in PredictKinds, container \in Containers :
        LET obj == ModelPredict(X[1], labels, kind, container)
        IN  /\ heap' = Append(heap, obj)
            /\ y_predicted' = Len(heap) + 1
            /\ predict_calls' = Append(predict_calls, [X |-> X[1], result |-> obj])
    /\ pc' = "copy"
    /\ UNCHANGED <<features, labels, wgs84_files, err, matrix_results,
                   fit_calls, train_result, X, y_true, predicted_bitmap,
                   groups, image_calls, overlay_calls, out_files, pr_calls>>

\* predicted_bitmap = np.array(y_predicted)
EvaluateCopy ==
    /\ pc = "copy"
    /\ LET made == np_array_of(heap, y_predicted)
       IN  /\ heap' = made.heap
           /\ predicted_bitmap' = made.ref
    /\ pc' = "threshold_first"
    /\ UNCHANGED <<features, labels, wgs84_files, err, matrix_results,
                   fit_calls, train_result, X, y_true, y_predicted,
                   predict_calls, groups, image_calls, overlay_calls,
                   out_files, pr_calls>>

\* predicted_bitmap[0.5 <= predicted_bitmap] = 1, in place
EvaluateThresholdFirst ==
    /\ pc = "threshold_first"
    /\ heap' = [heap EXCEPT ![predicted_bitmap].arr.data = threshold_first(@)]
    /\ pc' = "threshold_second"
    /\ UNCHANGED <<features, labels, wgs84_files, err, matrix_results,
                   fit_calls, train_result, X, y_true, y_predicted,
                   predicted_bitmap, predict_calls, groups, image_calls,
                   overlay_calls, out_files, pr_calls>>

\* predicted_bitmap[predicted_bitmap < 0.5] = 0, in place
EvaluateThresholdSecond ==
    /\ pc = "threshold_second"
    /\ heap' = [heap EXCEPT ![predicted_bitmap].arr.data = threshold_second(@)]
    /\ pc' = "visualise"
    /\ UNCHANGED <<features, labels, wgs84_files, err, matrix_results,
                   fit_calls, train_result, X, y_true, y_predicted,
                   predicted_bitmap, predict_calls, groups, image_calls,
                   overlay_calls, out_files, pr_calls>>

\* --------------------------------------------------- visualise_predictions

\* visualise_predictions up to its loop: the reshape (which raises when the
\* sizes differ), the pairing, the sort and the grouping.
VisualiseStart ==
    /\ pc = "visualise"
    /\ LET preds == heap[predicted_bitmap].arr
           shape == <<Len(labels), tile_size, tile_size, 1>>
       IN  IF CanReshape(preds, shape)
           THEN /\ groups' = groupby(sorted_by_path(
                        predictions_transformed(np_reshape(preds, shape), labels)))
                /\ pc' = "groups"
                /\ UNCHANGED err
           ELSE /\ err' = "ValueError"
                /\ pc' = "error"
                /\ UNCHANGED groups
    /\ UNCHANGED <<features, labels, wgs84_files, matrix_results, fit_calls,
                   train_result, X, y_true, heap, y_predicted,
                   predicted_bitmap, predict_calls, image_calls,
                   overlay_calls, out_files, pr_calls>>

\* One turn of the loop over the groups: open the companion raster (which
\* raises when it is missing), compose the bitmap and write it.
VisualiseGroup ==
    /\ pc = "groups"
    /\ groups # <<>>
    /\ LET g    == Head(groups)
           name == get_file_name(g.path)
       IN  IF name \in wgs84_files
           THEN LET bitmap == squeeze_bitmap(
                        image_from_tiles(g.tiles, tile_size, bitmap_shape(name)))
                IN  /\ image_calls' =
                          Append(image_calls, [path |-> g.path, tiles |-> g.tiles])
                    /\ overlay_calls' =
                          Append(overlay_calls,
                                 [path |-> g.path, bitmap |-> bitmap,
                                  file |-> RasterFile(g.path)])
                    /\ out_files' =
                          (RasterFile(g.path) :> [kind |-> "raster", bitmap |-> bitmap])
                              @@ out_files
                    /\ groups' = Tail(groups)
                    /\ UNCHANGED <<pc, err>>
           ELSE /\ err' = "RasterioIOError"
                /\ pc' = "error"
                /\ UNCHANGED <<groups, image_calls, overlay_calls, out_files>>
    /\ UNCHANGED <<features, labels, wgs84_files, matrix_results, fit_calls,
                   train_result, X, y_true, heap, y_predicted,
                   predicted_bitmap, predict_calls, pr_calls>>

\* The loop has taken every group: visualise_predictions returns.
VisualiseReturn ==
    /\ pc = "groups"
    /\ groups = <<>>
    /\ pc' = "precision_recall"
    /\ UNCHANGED <<features, labels, wgs84_files, err, matrix_results,
                   fit_calls, train_result, X, y_true, heap, y_predicted,
                   predicted_bitmap, predict_calls, groups, image_calls,
                   overlay_calls, out_files, pr_calls>>

\* -------------------------------------------------- precision_recall_curve

\* precision_recall_curve(y_true, y_predicted, out_path): both arguments
\* flattened, the curve of sklearn computed from them, the two files written.
PrecisionRecallCurve ==
    /\ pc = "precision_recall"
    /\ LET yt == np_reshape(y_true[1], <<y_true[1].shape[1] * y_true[1].shape[2]>>)
           yp == heap[y_predicted].arr
       IN  IF CanReshape(yp, yt.shape)
           THEN /\ pr_calls' = Append(pr_calls,
                        [y_true |-> yt, y_predicted |-> np_reshape(yp, yt.shape)])
                /\ out_files' = (PickleFile :> [kind |-> "pickle"])
                                @@ (PngFile :> [kind |-> "png"])
                                @@ out_files
                /\ pc' = "done"
                /\ UNCHANGED err
           ELSE /\ err' = "ValueError"
                /\ pc' = "error"
                /\ UNCHANGED <<pr_calls, out_files>>
    /\ UNCHANGED <<features, labels, wgs84_files, matrix_results, fit_calls,
                   train_result, X, y_true, heap, y_predicted,
                   predicted_bitmap, predict_calls, groups, image_calls,
                   overlay_calls>>

Next ==
    \/ TrainModel
    \/ EvaluateMatrixForm
    \/ EvaluatePredict
    \/ EvaluateCopy
    \/ EvaluateThresholdFirst
    \/ EvaluateThresholdSecond
    \/ VisualiseStart
    \/ VisualiseGroup
    \/ VisualiseReturn
    \/ PrecisionRecallCurve

Spec == Init /\ [][Next]_vars

\* ------------------------------------------------------------ the claims

\* The distinct source paths among the label tiles.
LabelPaths == {labels[i].path : i \in DOMAIN labels}

\* The indices of the label tiles cut from the image p.
TilesFrom(p) == {i \in DOMAIN labels : labels[i].path = p}

\* What model.predict returned, as recorded at the call.
Predicted == predict_calls[1].result.arr

\* The array predicted_bitmap refers to.
Bitmap == heap[predicted_bitmap].arr

\* visualise_predictions has returned without an error.
Visualised == pc \in {"precision_recall", "done"}

\* The label tiles come with their paths interleaved: a tile of another path
\* lies between two tiles of one path.
Interleaved ==
    \E i, j, k \in DOMAIN labels :
        /\ i < j /\ j < k
        /\ labels[i].path = labels[k].path
        /\ labels[j].path # labels[i].path

\* C1: the tiles handed to image_from_tiles for one output raster are exactly
\* the tiles whose source path is the group's path: none of another path, all
\* of that path, each once.
C1_GroupHoldsItsPath ==
    \A n \in DOMAIN image_calls :
        LET c == image_calls[n]
        IN  /\ \A j \in DOMAIN c.tiles : c.tiles[j][3] = c.path
            /\ Len(c.tiles) = Cardinality(TilesFrom(c.path))
            /\ \A i \in TilesFrom(c.path) :
                  \E j \in DOMAIN c.tiles : c.tiles[j][2] = labels[i].position

\* C1: a raster was composed from two tiles of one path that came interleaved
\* with a tile of another path.
C1_Witness ==
    /\ Interleaved
    /\ \E n \in DOMAIN image_calls :
          /\ Len(image_calls[n].tiles) = 2
          /\ \E i, k \in TilesFrom(image_calls[n].path) :
                \E j \in DOMAIN labels :
                    i < j /\ j < k /\ labels[j].path # labels[i].path

\* The output rasters under out_path.
RasterFiles == {f \in DOMAIN out_files : f[2] = ".tif"}

\* C2: once visualise_predictions has returned, there are as many output
\* rasters as distinct source paths, also when two paths share a file name.
C2_OneFilePerPath ==
    Visualised => Cardinality(RasterFiles) = Cardinality(LabelPaths)

\* The thresholding is over: both assignments have been made.
Thresholded ==
    pc \in {"visualise", "groups", "precision_recall", "done"}
        \/ (pc = "error" /\ predicted_bitmap # 0)

\* C3: after the two assignments every element of predicted_bitmap is 1 where
\* the prediction is at least 0.5 and 0 where it is below, 0.5 itself giving
\* 1, and the bitmap has the shape of the prediction matrix.
C3_Threshold ==
    Thresholded =>
        /\ Bitmap.shape = Predicted.shape
        /\ \A k \in DOMAIN Predicted.data :
              Bitmap.data[k] = IF Predicted.data[k] >= Half THEN One ELSE 0

\* C3: a prediction of exactly 0.5 has become 1, one just below 0.5 has
\* become 0 and one just above has become 1.
C3_Witness ==
    /\ pc = "visualise"
    /\ \E k \in DOMAIN Predicted.data :
          Predicted.data[k] = Half /\ Bitmap.data[k] = One
    /\ \E k \in DOMAIN Predicted.data :
          Predicted.data[k] = Half - 1 /\ Bitmap.data[k] = 0
    /\ \E k \in DOMAIN Predicted.data :
          Predicted.data[k] = Half + 1 /\ Bitmap.data[k] = One

\* C4: the thresholding leaves y_predicted as model.predict returned it, and
\* precision_recall_curve receives exactly those values, flattened.
C4_RawPredictions ==
    /\ y_predicted # 0 => heap[y_predicted] = predict_calls[1].result
    /\ \A n \in DOMAIN pr_calls :
          pr_calls[n].y_predicted.data = Predicted.data

\* C4: model.predict returned an ndarray with values that are neither 0 nor
\* 1, the bitmap has been thresholded and the curve was computed.
C4_Witness ==
    /\ pc = "done"
    /\ predict_calls[1].result.kind = "ndarray"
    /\ \E k \in DOMAIN Predicted.data : Predicted.data[k] \notin {0, One}
    /\ Bitmap.data # Predicted.data
    /\ Len(pr_calls) = 1

\* The label tiles of the image p cover its raster: there is one at every
\* position of the grid.
Covered(p) == {labels[i].position : i \in TilesFrom(p)} = Positions(p)

\* The predictions handed to visualise_predictions for the tiles of the image
\* p are the contents of those tiles.
PredictionsAreContents(p) ==
    /\ Len(Bitmap.data) = Len(labels) * tile_size * tile_size
    /\ \A i \in TilesFrom(p) : \A k \in 1 .. tile_size * tile_size :
          Bitmap.data[(i - 1) * tile_size * tile_size + k]
              = ToFloat(labels[i].tile, labels[i].tile.data[k])

\* C5: when the tiles of a source path cover its raster of shape (H, W) and
\* the predictions are the tiles' contents, in any tile order, the bitmap
\* written for that path has shape (H, W) and is the raster the tiles were
\* cut from, element for element.
C5_RoundTrip ==
    \A n \in DOMAIN overlay_calls :
        LET c == overlay_calls[n]
            s == RasterShape(get_file_name(c.path))
        IN  (Covered(c.path) /\ PredictionsAreContents(c.path)) =>
                /\ c.bitmap.shape = s
                /\ \A r \in 0 .. s[1] - 1 : \A q \in 0 .. s[2] - 1 :
                      At(c.bitmap, <<r, q>>) = Mask(c.path, r, q)

\* C5: a raster was reassembled from covering tiles that were given against
\* the order of their positions, and it holds both water and land.
C5_Witness ==
    \E n \in DOMAIN overlay_calls :
        LET c == overlay_calls[n]
        IN  /\ Covered(c.path) /\ PredictionsAreContents(c.path)
            /\ \E i, j \in TilesFrom(c.path) :
                  /\ i < j
                  /\ \/ labels[i].position[1] > labels[j].position[1]
                     \/ labels[i].position[2] > labels[j].position[2]
            /\ \E k, m \in DOMAIN c.bitmap.data :
                  c.bitmap.data[k] = 1 /\ c.bitmap.data[m] = 0

\* get_matrix_form has just returned X and y_true to evaluate_model (neither
\* is assigned again).
MatrixFormReturned == pc = "predict"

\* The shapes and the elements get_matrix_form is to return for the tiles.
MatrixFormAsSpecified ==
    LET N == Len(labels)
        T == tile_size
    IN  /\ X[1].shape = <<N, T, T, NumChannels>>
        /\ y_true[1].shape = <<N, T * T>>
        /\ \A i \in DOMAIN labels : \A r, q \in 0 .. T - 1 :
              At(y_true[1], <<i - 1, r * T + q>>) = At(labels[i].tile, <<r, q>>)
        /\ \A i \in DOMAIN features : \A r, q \in 0 .. T - 1 :
              \A ch \in 0 .. NumChannels - 1 :
                 At(X[1], <<i - 1, r, q, ch>>) = At(features[i].tile, <<r, q, ch>>)

\* The input tile sequences are as they were handed in: every tile is still
\* the tile cut from its image at its position.
InputsIntact ==
    /\ \A i \in DOMAIN labels :
          labels[i] = LabelTile(labels[i].path, labels[i].position)
    /\ \A i \in DOMAIN features :
          features[i] = FeatureTile(features[i].path, features[i].position)

\* C6, as claimed: for N feature tiles and N label tiles get_matrix_form
\* returns a feature array of shape (N, T, T, C) and a label array of shape
\* (N, T * T), in the order of the input, and leaves the input as it was.
C6_AsClaimed ==
    /\ (MatrixFormReturned /\ Len(features) = Len(labels))
            => MatrixFormAsSpecified
    /\ X # <<>> => InputsIntact

\* C6, amended: for N >= 1 feature tiles and N label tiles get_matrix_form
\* returns a feature array of shape (N, T, T, C) whose entry i is the i-th
\* feature tile and a label array of shape (N, T * T) whose row i is the
\* row-major flattening of the i-th label tile, and the input tile sequences
\* are left as they were handed in.
C6_MatrixForm ==
    /\ (MatrixFormReturned /\ Len(features) = Len(labels) /\ Len(labels) >= 1)
            => MatrixFormAsSpecified
    /\ X # <<>> => InputsIntact

\* C6: get_matrix_form has returned the arrays of two or more tile pairs
\* whose label tiles differ.
C6_Witness ==
    /\ MatrixFormReturned
    /\ Len(features) = Len(labels)
    /\ Len(labels) >= 2
    /\ labels[1].tile # labels[2].tile
    /\ features[1].tile # features[2].tile

\* C7: with len(features) # len(labels) every call of get_matrix_form ends in
\* an error, train_model and evaluate_model do not return, and no output file
\* is written.
C7_MismatchIsAnError ==
    Len(features) # Len(labels) =>
        /\ \A n \in DOMAIN matrix_results : matrix_results[n] = "error"
        /\ train_result # "returned"
        /\ pc # "done"
        /\ DOMAIN out_files = {}

\* C8, as claimed: when rasterio.open fails, no output file of the run is
\* left: no raster, also none of an earlier group, and no precision-recall
\* file.
C8_NoPartialResult ==
    err = "RasterioIOError" => DOMAIN out_files = {} /\ pr_calls = <<>>

\* C8, amended: when rasterio.open fails for the group of a source path, the
\* rasters written are exactly those of the groups earlier in sorted path
\* order (they stay), none is written for that group or a later one, and
\* neither precision-recall file is written.
C8_EarlierGroupsOnly ==
    err = "RasterioIOError" =>
        LET failing == Head(groups).path
            earlier == {p \in LabelPaths : PathOrder(p) < PathOrder(failing)}
        IN  /\ pc = "error"
            /\ get_file_name(failing) \notin wgs84_files
            /\ {overlay_calls[n].path : n \in DOMAIN overlay_calls} = earlier
            /\ DOMAIN out_files = {RasterFile(p) : p \in earlier}
            /\ RasterFile(failing) \notin DOMAIN out_files
            /\ pr_calls = <<>>
            /\ ~ ENABLED Next

\* C8: rasterio.open has failed after the raster of an earlier group was
\* written.
C8_Witness ==
    /\ err = "RasterioIOError"
    /\ overlay_calls # <<>>
    /\ DOMAIN out_files # {}

\* The triple visualise_predictions is to build for the label tile i: the
\* i-th block of the predictions with the position and the path of labels[i].
Triple(i) ==
    LET n == tile_size * tile_size
    IN  <<[shape |-> <<tile_size, tile_size, 1>>,
           data  |-> [k \in 1 .. n |-> Bitmap.data[(i - 1) * n + k]],
           dtype |-> Bitmap.dtype],
          labels[i].position, labels[i].path>>

\* The triples in the groups still to take and in those handed on.
TriplesSeen ==
    UNION ({{groups[n].tiles[j] : j \in DOMAIN groups[n].tiles} :
                n \in DOMAIN groups}
           \cup {{image_calls[n].tiles[j] : j \in DOMAIN image_calls[n].tiles} :
                n \in DOMAIN image_calls})

\* C9: every triple that is sorted, grouped and handed to image_from_tiles is
\* (predictions[i], position of labels[i], path of labels[i]) for one index
\* i, and while the loop runs every index has its triple.
C9_IndexAligned ==
    /\ \A t \in TriplesSeen : \E i \in DOMAIN labels : t = Triple(i)
    /\ pc = "groups" => \A i \in DOMAIN labels : Triple(i) \in TriplesSeen

\* C9: tiles with different prediction blocks were given against the order
\* of their paths, and both were handed to image_from_tiles.
C9_Witness ==
    /\ pc = "groups"
    /\ groups = <<>>
    /\ \E i, j \in DOMAIN labels :
          /\ i < j
          /\ PathOrder(labels[i].path) > PathOrder(labels[j].path)
          /\ Triple(i)[1] # Triple(j)[1]
          /\ \E n, m \in DOMAIN image_calls :
                /\ image_calls[n].path = labels[i].path
                /\ image_calls[m].path = labels[j].path

\* C10: model.predict receives what model.fit received for the same feature
\* tiles: the output of get_matrix_form rescaled by normalize_input.
C10_SamePreprocessing ==
    \A n \in DOMAIN predict_calls :
        /\ predict_calls[n].X =
              normalize_input(get_matrix_form(features, labels, tile_size).X)
        /\ \A m \in DOMAIN fit_calls : predict_calls[n].X = fit_calls[m].X

====
